---- MODULE Spec2Model ----
(***************************************************************************)
(* Fund vault program (programs/vaults): one ProtocolConfig, one FundState,*)
(* the vault's USDC token account, the manager's fee account, the          *)
(* investors' share token accounts and the WithdrawalRequest accounts of   *)
(* the fund.  Every instruction of lib.rs is one action.  An instruction   *)
(* that returns an error changes no account (the transaction is rolled     *)
(* back); its outcome is the value of the instruction's _err operator.     *)
(***************************************************************************)
EXTENDS Integers, FiniteSets, Sequences, TLC

\* ------------------------------------------------------------------
\* Program constants
\* ------------------------------------------------------------------
BPS_DENOM == 10000
NAV_SCALE == 1000000
MAX_DEPOSIT_FEE_BPS == 300
MAX_PERF_FEE_BPS == 3000
DEFAULT_EARLY_EXIT_FEE_BPS == 500
DEFAULT_BUFFER_BPS == 1000
DEFAULT_EPOCH_INTERVAL_SECS == 86400
MAX_NAME_LEN == 32
MAX_SYMBOL_LEN == 8

\* ------------------------------------------------------------------
\* Bounds of the model
\* ------------------------------------------------------------------
\* the clock advances at most MaxTicks times
MaxTicks == 2
\* the gross deposits of a fund (total_deposited) stay at or below MaxDeposited
MaxDeposited == 80
\* the transfers into the vault from outside the program sum to at most MaxInflow
MaxInflow == 13
\* at most MaxRequests withdrawal requests are ever created
MaxRequests == 2
\* the share conversions are tried on total_shares, vault balances and amounts
\* up to these
MaxNavShares == 12
MaxNavVault == 12
MaxNavAmount == 12

Investors == {"A", "B"}
Manager == "M"
Signers == {Manager, "A"}
TickLen == DEFAULT_EPOCH_INTERVAL_SECS
StartTime == 2 * DEFAULT_EPOCH_INTERVAL_SECS
EndOfTime == StartTime + MaxTicks * TickLen
DepositAmounts == {0, 40}
DonateAmounts == {13}
MaxInt == (2^30 - 1) * 2 + 1

\* ------------------------------------------------------------------
\* Widened arithmetic: floor(a * b / c) with a product that does not fit
\* the machine word of the checker (the program widens to u128).
\* ------------------------------------------------------------------
RECURSIVE MulDivBits(_, _, _, _)
\* <<q, r>> with b * qa * c + b * ra = q * c + r and 0 <= r < c
MulDivBits(b, qa, ra, c) ==
    IF b = 0 THEN <<0, 0>>
    ELSE LET h == MulDivBits(b \div 2, qa, ra, c)
             bit == b % 2
             raw == 2 * h[2] + bit * ra
         IN  <<2 * h[1] + bit * qa + (raw \div c), raw % c>>

MulDiv(a, b, c) ==
    IF a = 0 \/ b <= MaxInt \div a
    THEN (a * b) \div c
    ELSE MulDivBits(b, a \div c, a % c, c)[1]

Min(a, b) == IF a <= b THEN a ELSE b
\* u64::saturating_sub
saturating_sub(a, b) == IF a >= b THEN a - b ELSE 0

VARIABLES
    protocol,      \* ProtocolConfig account
    fund,          \* FundState account
    vault,         \* balance of the vault's USDC token account
    manager_fee,   \* balance of the manager's fee USDC token account
    shares,        \* balance of each investor's share token account
    requests,      \* WithdrawalRequest accounts that exist, by request index
                   \* (requested_at, which no instruction reads, is left out)
    now,           \* Clock::get().unix_timestamp
    perf_fee_received, \* USDC moved to the manager by the performance-fee transfer of redeem
    inflow         \* USDC transferred into the vault account from outside the program

vars == <<protocol, fund, vault, manager_fee, shares, requests, now, perf_fee_received, inflow>>

accounts == <<protocol, fund, vault, manager_fee, shares, requests, perf_fee_received, inflow>>

\* ------------------------------------------------------------------
\* state.rs: pure functions of FundState and WithdrawalRequest
\* ------------------------------------------------------------------
\* the shares for a deposit rounded up instead of down
shares_for_deposit_ceil(f, net_amount, vault_balance) ==
    IF f.total_shares = 0 THEN net_amount
    ELSE (net_amount * f.total_shares + vault_balance - 1) \div vault_balance

shares_for_deposit(f, net_amount, vault_balance) ==
    IF f.total_shares = 0 THEN net_amount
    ELSE MulDiv(net_amount, f.total_shares, vault_balance)

\* the payout for shares rounded up instead of down
usdc_for_shares_ceil(f, sh, vault_balance) ==
    IF f.total_shares = 0 THEN 0
    ELSE (sh * vault_balance + f.total_shares - 1) \div f.total_shares

usdc_for_shares(f, sh, vault_balance) ==
    IF f.total_shares = 0 THEN 0
    ELSE MulDiv(sh, vault_balance, f.total_shares)

calculate_deposit_fee(f, amount) == MulDiv(amount, f.deposit_fee_bps, BPS_DENOM)

\* the performance fee rounded up instead of down
calculate_perf_fee_ceil(f, profit) == (profit * f.perf_fee_bps + BPS_DENOM - 1) \div BPS_DENOM

calculate_perf_fee(f, profit) == MulDiv(profit, f.perf_fee_bps, BPS_DENOM)

calculate_early_exit_fee(f, amount) == MulDiv(amount, f.early_exit_fee_bps, BPS_DENOM)

\* the reserve taken on the fund's gross deposits instead of the given balance
min_buffer_amount_of_deposits(f, nav) == MulDiv(f.total_deposited, f.liquidity_buffer_bps, BPS_DENOM)

min_buffer_amount(f, nav) == MulDiv(nav, f.liquidity_buffer_bps, BPS_DENOM)

shares_remaining(r) == saturating_sub(r.shares_requested, r.shares_filled)

\* ------------------------------------------------------------------
\* Initial state: no account exists yet
\* ------------------------------------------------------------------
NoProtocol ==
    [exists |-> FALSE, max_deposit_fee_bps |-> 0, max_perf_fee_bps |-> 0,
     max_early_exit_fee_bps |-> 0]

NoFund ==
    [exists |-> FALSE, deposit_fee_bps |-> 0, perf_fee_bps |-> 0,
     early_exit_fee_bps |-> 0, liquidity_buffer_bps |-> 0,
     trading_start_ts |-> 0, trading_end_ts |-> 0, stage |-> "Open",
     pending_withdrawal_shares |-> 0, last_epoch_ts |-> 0,
     epoch_interval_secs |-> 0, pending_request_count |-> 0,
     initial_aum_usdc |-> 0, perf_fee_due_usdc |-> 0, perf_fee_paid |-> FALSE,
     total_deposited |-> 0, share_mint |-> FALSE, vault_usdc_ata |-> FALSE,
     total_shares |-> 0]

Init ==
    /\ protocol = NoProtocol
    /\ fund = NoFund
    /\ vault = 0
    /\ manager_fee = 0
    /\ shares = [i \in Investors |-> 0]
    /\ requests = << >>
    /\ now = StartTime
    /\ perf_fee_received = 0
    /\ inflow = 0

\* an instruction that returned an error: the transaction is rolled back
Failed == UNCHANGED vars

\* ------------------------------------------------------------------
\* initialize_protocol.rs
\* ------------------------------------------------------------------
initialize_protocol_err ==
    IF protocol.exists THEN "AccountAlreadyInUse" ELSE "Ok"

initialize_protocol ==
    LET e == initialize_protocol_err IN
    IF e # "Ok" THEN Failed
    ELSE /\ protocol' = [protocol EXCEPT !.exists = TRUE,
                             !.max_deposit_fee_bps = MAX_DEPOSIT_FEE_BPS,
                             !.max_perf_fee_bps = MAX_PERF_FEE_BPS]
         /\ UNCHANGED <<fund, vault, manager_fee, shares, requests, now, perf_fee_received, inflow>>

\* ------------------------------------------------------------------
\* create_fund.rs
\* ------------------------------------------------------------------
\* create_fund's checks with the performance-fee cap left out
create_fund_err_no_perf_cap(name_len, symbol_len, deposit_fee_bps, perf_fee_bps, trading_start_ts, trading_end_ts) ==
    IF ~protocol.exists THEN "AccountNotInitialized"
    ELSE IF fund.exists THEN "AccountAlreadyInUse"
    ELSE IF name_len = 0 THEN "NameEmpty"
    ELSE IF ~(name_len <= MAX_NAME_LEN) THEN "NameTooLong"
    ELSE IF symbol_len = 0 THEN "SymbolEmpty"
    ELSE IF ~(symbol_len <= MAX_SYMBOL_LEN) THEN "SymbolTooLong"
    ELSE IF ~(deposit_fee_bps <= protocol.max_deposit_fee_bps) THEN "DepositFeeExceedsMax"
    ELSE IF ~(trading_start_ts > now) THEN "TradingStartInPast"
    ELSE IF ~(trading_end_ts > trading_start_ts) THEN "InvalidTradingPeriod"
    ELSE "Ok"

\* create_fund's checks with the ordering of the trading window left out
create_fund_err_no_period(name_len, symbol_len, deposit_fee_bps, perf_fee_bps, trading_start_ts, trading_end_ts) ==
    IF ~protocol.exists THEN "AccountNotInitialized"
    ELSE IF fund.exists THEN "AccountAlreadyInUse"
    ELSE IF name_len = 0 THEN "NameEmpty"
    ELSE IF ~(name_len <= MAX_NAME_LEN) THEN "NameTooLong"
    ELSE IF symbol_len = 0 THEN "SymbolEmpty"
    ELSE IF ~(symbol_len <= MAX_SYMBOL_LEN) THEN "SymbolTooLong"
    ELSE IF ~(deposit_fee_bps <= protocol.max_deposit_fee_bps) THEN "DepositFeeExceedsMax"
    ELSE IF ~(perf_fee_bps <= protocol.max_perf_fee_bps) THEN "PerfFeeExceedsMax"
    ELSE IF ~(trading_start_ts > now) THEN "TradingStartInPast"
    ELSE "Ok"

create_fund_err(name_len, symbol_len, deposit_fee_bps, perf_fee_bps, trading_start_ts, trading_end_ts) ==
    IF ~protocol.exists THEN "AccountNotInitialized"
    \* init of the fund_state account
    ELSE IF fund.exists THEN "AccountAlreadyInUse"
    ELSE IF name_len = 0 THEN "NameEmpty"
    ELSE IF ~(name_len <= MAX_NAME_LEN) THEN "NameTooLong"
    ELSE IF symbol_len = 0 THEN "SymbolEmpty"
    ELSE IF ~(symbol_len <= MAX_SYMBOL_LEN) THEN "SymbolTooLong"
    ELSE IF ~(deposit_fee_bps <= protocol.max_deposit_fee_bps) THEN "DepositFeeExceedsMax"
    ELSE IF ~(perf_fee_bps <= protocol.max_perf_fee_bps) THEN "PerfFeeExceedsMax"
    ELSE IF ~(trading_start_ts > now) THEN "TradingStartInPast"
    ELSE IF ~(trading_end_ts > trading_start_ts) THEN "InvalidTradingPeriod"
    ELSE "Ok"

create_fund(name_len, symbol_len, deposit_fee_bps, perf_fee_bps, trading_start_ts, trading_end_ts) ==
    LET e == create_fund_err(name_len, symbol_len, deposit_fee_bps, perf_fee_bps,
                             trading_start_ts, trading_end_ts) IN
    IF e # "Ok" THEN Failed
    ELSE /\ trading_end_ts <= EndOfTime
         /\ fund' = [NoFund EXCEPT !.exists = TRUE,
                         !.deposit_fee_bps = deposit_fee_bps,
                         !.perf_fee_bps = perf_fee_bps,
                         !.early_exit_fee_bps = DEFAULT_EARLY_EXIT_FEE_BPS,
                         !.liquidity_buffer_bps = DEFAULT_BUFFER_BPS,
                         !.trading_start_ts = trading_start_ts,
                         !.trading_end_ts = trading_end_ts,
                         !.stage = "Open",
                         !.epoch_interval_secs = DEFAULT_EPOCH_INTERVAL_SECS]
         /\ UNCHANGED <<protocol, vault, manager_fee, shares, requests, now, perf_fee_received, inflow>>

initialize_share_mint_err(signer) ==
    IF ~fund.exists THEN "AccountNotInitialized"
    ELSE IF signer # Manager THEN "UnauthorizedManager"
    ELSE IF fund.stage # "Open" THEN "InvalidStage"
    ELSE IF fund.share_mint THEN "InvalidStage"
    ELSE "Ok"

initialize_share_mint(signer) ==
    LET e == initialize_share_mint_err(signer) IN
    IF e # "Ok" THEN Failed
    ELSE /\ fund' = [fund EXCEPT !.share_mint = TRUE]
         /\ UNCHANGED <<protocol, vault, manager_fee, shares, requests, now, perf_fee_received, inflow>>

\* the vault-accounts phase without the check that the share mint is set
initialize_vault_accounts_err_any_order(signer) ==
    IF ~fund.exists THEN "AccountNotInitialized"
    ELSE IF signer # Manager THEN "UnauthorizedManager"
    ELSE IF fund.stage # "Open" THEN "InvalidStage"
    ELSE IF fund.vault_usdc_ata THEN "InvalidStage"
    ELSE "Ok"

initialize_vault_accounts_err(signer) ==
    IF ~fund.exists THEN "AccountNotInitialized"
    ELSE IF signer # Manager THEN "UnauthorizedManager"
    ELSE IF fund.stage # "Open" THEN "InvalidStage"
    ELSE IF ~fund.share_mint THEN "InvalidStage"
    ELSE IF fund.vault_usdc_ata THEN "InvalidStage"
    ELSE "Ok"

initialize_vault_accounts(signer) ==
    LET e == initialize_vault_accounts_err(signer) IN
    IF e # "Ok" THEN Failed
    ELSE /\ fund' = [fund EXCEPT !.vault_usdc_ata = TRUE]
         /\ UNCHANGED <<protocol, vault, manager_fee, shares, requests, now, perf_fee_received, inflow>>

\* the token accounts every fund instruction after construction names
Constructed == fund.exists /\ fund.share_mint /\ fund.vault_usdc_ata

\* ------------------------------------------------------------------
\* deposit.rs
\* ------------------------------------------------------------------
deposit_err(amount) ==
    IF ~Constructed THEN "AccountNotInitialized"
    ELSE IF fund.stage # "Open" THEN "DepositsNotAllowed"
    ELSE IF ~(amount > 0) THEN "ZeroDeposit"
    \* shares_for_deposit divides by the vault balance
    ELSE IF fund.total_shares # 0 /\ vault = 0 THEN "DivideByZero"
    ELSE "Ok"

\* deposit with the shares taken on the vault balance after the transfer
deposit_post_balance(investor, amount) ==
    LET e == deposit_err(amount) IN
    IF e # "Ok" THEN Failed
    ELSE LET deposit_fee == calculate_deposit_fee(fund, amount)
             net_amount == amount - deposit_fee
             shares_to_mint == shares_for_deposit(fund, net_amount, vault + net_amount)
         IN  /\ fund.total_deposited + amount <= MaxDeposited
             /\ manager_fee' = manager_fee + deposit_fee
             /\ vault' = vault + net_amount
             /\ shares' = [shares EXCEPT ![investor] = @ + shares_to_mint]
             /\ fund' = [fund EXCEPT !.total_shares = @ + shares_to_mint,
                                     !.total_deposited = @ + amount]
             /\ UNCHANGED <<protocol, requests, now, perf_fee_received, inflow>>

deposit(investor, amount) ==
    LET e == deposit_err(amount) IN
    IF e # "Ok" THEN Failed
    ELSE LET deposit_fee == calculate_deposit_fee(fund, amount)
             net_amount == amount - deposit_fee
             shares_to_mint == shares_for_deposit(fund, net_amount, vault)
         IN  /\ fund.total_deposited + amount <= MaxDeposited
             /\ manager_fee' = manager_fee + deposit_fee
             /\ vault' = vault + net_amount
             /\ shares' = [shares EXCEPT ![investor] = @ + shares_to_mint]
             /\ fund' = [fund EXCEPT !.total_shares = @ + shares_to_mint,
                                     !.total_deposited = @ + amount]
             /\ UNCHANGED <<protocol, requests, now, perf_fee_received, inflow>>

\* ------------------------------------------------------------------
\* withdraw_open.rs
\* ------------------------------------------------------------------
withdraw_open_err(investor, sh) ==
    IF ~Constructed THEN "AccountNotInitialized"
    ELSE IF fund.stage # "Open" THEN "WithdrawalsNotAllowed"
    ELSE IF ~(sh > 0) THEN "ZeroWithdrawal"
    ELSE IF ~(shares[investor] >= sh) THEN "InsufficientShares"
    ELSE IF ~(vault >= usdc_for_shares(fund, sh, vault)) THEN "InsufficientVaultBalance"
    ELSE IF fund.total_shares < sh THEN "MathUnderflow"
    ELSE "Ok"

\* a withdrawal in Open that keeps the early-exit fee in the vault
withdraw_open_exit_fee(investor, sh) ==
    LET e == withdraw_open_err(investor, sh) IN
    IF e # "Ok" THEN Failed
    ELSE LET usdc_amount == usdc_for_shares(fund, sh, vault)
         IN  /\ shares' = [shares EXCEPT ![investor] = @ - sh]
             /\ vault' = vault - (usdc_amount - calculate_early_exit_fee(fund, usdc_amount))
             /\ fund' = [fund EXCEPT !.total_shares = @ - sh]
             /\ UNCHANGED <<protocol, manager_fee, requests, now, perf_fee_received, inflow>>

withdraw_open(investor, sh) ==
    LET e == withdraw_open_err(investor, sh) IN
    IF e # "Ok" THEN Failed
    ELSE LET usdc_amount == usdc_for_shares(fund, sh, vault)
         IN  /\ shares' = [shares EXCEPT ![investor] = @ - sh]
             /\ vault' = vault - usdc_amount
             /\ fund' = [fund EXCEPT !.total_shares = @ - sh]
             /\ UNCHANGED <<protocol, manager_fee, requests, now, perf_fee_received, inflow>>

\* ------------------------------------------------------------------
\* start_trading.rs, end_trading.rs, execute_trade.rs, finalize_close.rs
\* ------------------------------------------------------------------
\* start_trading's checks with the start time left out
start_trading_err_any_time ==
    IF ~Constructed THEN "AccountNotInitialized"
    ELSE IF fund.stage # "Open" THEN "InvalidStage"
    ELSE "Ok"

start_trading_err ==
    IF ~Constructed THEN "AccountNotInitialized"
    ELSE IF fund.stage # "Open" THEN "InvalidStage"
    ELSE IF ~(now >= fund.trading_start_ts) THEN "TradingNotStarted"
    ELSE "Ok"

\* the snapshot taken from the gross deposits instead of the vault balance
start_trading_aum_deposited ==
    LET e == start_trading_err IN
    IF e # "Ok" THEN Failed
    ELSE /\ fund' = [fund EXCEPT !.initial_aum_usdc = fund.total_deposited, !.stage = "Trading"]
         /\ UNCHANGED <<protocol, vault, manager_fee, shares, requests, now, perf_fee_received, inflow>>

start_trading ==
    LET e == start_trading_err IN
    IF e # "Ok" THEN Failed
    ELSE /\ fund' = [fund EXCEPT !.initial_aum_usdc = vault, !.stage = "Trading"]
         /\ UNCHANGED <<protocol, vault, manager_fee, shares, requests, now, perf_fee_received, inflow>>

execute_trade_err(signer, amount) ==
    IF ~Constructed THEN "AccountNotInitialized"
    ELSE IF signer # Manager THEN "UnauthorizedManager"
    ELSE IF fund.stage # "Trading" THEN "TradingNotAllowed"
    ELSE IF ~(amount > 0) THEN "ZeroDeposit"
    ELSE "Ok"

execute_trade(signer, amount) ==
    LET e == execute_trade_err(signer, amount) IN
    IF e # "Ok" THEN Failed
    ELSE UNCHANGED vars

\* end_trading's checks with the stage constraint left out
end_trading_err_no_stage ==
    IF ~fund.exists THEN "AccountNotInitialized"
    ELSE IF ~(now >= fund.trading_end_ts) THEN "TradingNotEnded"
    ELSE "Ok"

end_trading_err ==
    IF ~fund.exists THEN "AccountNotInitialized"
    ELSE IF fund.stage # "Trading" THEN "InvalidStage"
    ELSE IF ~(now >= fund.trading_end_ts) THEN "TradingNotEnded"
    ELSE "Ok"

end_trading ==
    LET e == end_trading_err IN
    IF e # "Ok" THEN Failed
    ELSE /\ fund' = [fund EXCEPT !.stage = "Settlement"]
         /\ UNCHANGED <<protocol, vault, manager_fee, shares, requests, now, perf_fee_received, inflow>>

finalize_close_err ==
    IF ~Constructed THEN "AccountNotInitialized"
    ELSE IF fund.stage # "Settlement" THEN "InvalidStage"
    ELSE "Ok"

finalize_close ==
    LET e == finalize_close_err IN
    IF e # "Ok" THEN Failed
    ELSE LET profit == IF vault > fund.initial_aum_usdc
                       THEN vault - fund.initial_aum_usdc ELSE 0
         IN  /\ fund' = [fund EXCEPT !.perf_fee_due_usdc = calculate_perf_fee(fund, profit),
                                     !.perf_fee_paid = FALSE,
                                     !.stage = "Closed"]
             /\ UNCHANGED <<protocol, vault, manager_fee, shares, requests, now, perf_fee_received, inflow>>

\* ------------------------------------------------------------------
\* redeem.rs
\* ------------------------------------------------------------------
\* the fee transfer of redeem without the perf_fee_paid guard
redeem_perf_fee_unguarded == IF fund.perf_fee_due_usdc > 0
                             THEN fund.perf_fee_due_usdc ELSE 0

\* the performance fee redeem transfers first: due and not yet paid
redeem_perf_fee == IF fund.perf_fee_due_usdc > 0 /\ ~fund.perf_fee_paid
                   THEN fund.perf_fee_due_usdc ELSE 0

redeem_err(investor, sh) ==
    IF ~Constructed THEN "AccountNotInitialized"
    ELSE IF fund.stage # "Closed" THEN "WithdrawalsNotAllowed"
    ELSE IF ~(sh > 0) THEN "ZeroWithdrawal"
    ELSE IF ~(shares[investor] >= sh) THEN "InsufficientShares"
    \* token::transfer of the fee out of the vault
    ELSE IF vault < redeem_perf_fee THEN "TokenInsufficientFunds"
    ELSE IF ~(vault - redeem_perf_fee >= usdc_for_shares(fund, sh, vault - redeem_perf_fee))
         THEN "InsufficientVaultBalance"
    ELSE IF fund.total_shares < sh THEN "MathUnderflow"
    ELSE "Ok"

\* redeem without the rollback of a failed transaction: when a guard after
\* the performance-fee step fails, the fee transfer and perf_fee_paid stay
redeem_fee_sticks(investor, sh) ==
    LET e == redeem_err(investor, sh)
        perf_fee == redeem_perf_fee
        vault_balance == vault - perf_fee
    IN  IF e \in {"InsufficientVaultBalance", "MathUnderflow"}
        THEN /\ manager_fee' = manager_fee + perf_fee
             /\ perf_fee_received' = perf_fee_received + perf_fee
             /\ vault' = vault_balance
             /\ fund' = [fund EXCEPT !.perf_fee_paid = (@ \/ perf_fee > 0)]
             /\ UNCHANGED <<protocol, shares, requests, now, inflow>>
        ELSE IF e # "Ok" THEN Failed
        ELSE /\ manager_fee' = manager_fee + perf_fee
             /\ perf_fee_received' = perf_fee_received + perf_fee
             /\ shares' = [shares EXCEPT ![investor] = @ - sh]
             /\ vault' = vault_balance - usdc_for_shares(fund, sh, vault_balance)
             /\ fund' = [fund EXCEPT !.perf_fee_paid = (@ \/ perf_fee > 0),
                                     !.total_shares = @ - sh]
             /\ UNCHANGED <<protocol, requests, now, inflow>>

\* redeem with the investor's payout computed on the balance read before the
\* performance fee left the vault
redeem_payout_before_fee(investor, sh) ==
    LET e == redeem_err(investor, sh) IN
    IF e # "Ok" THEN Failed
    ELSE LET perf_fee == redeem_perf_fee
             vault_balance == vault - perf_fee
             usdc_amount == Min(usdc_for_shares(fund, sh, vault), vault_balance)
         IN  /\ manager_fee' = manager_fee + perf_fee
             /\ perf_fee_received' = perf_fee_received + perf_fee
             /\ shares' = [shares EXCEPT ![investor] = @ - sh]
             /\ vault' = vault_balance - usdc_amount
             /\ fund' = [fund EXCEPT !.perf_fee_paid = (@ \/ perf_fee > 0),
                                     !.total_shares = @ - sh]
             /\ UNCHANGED <<protocol, requests, now, inflow>>

redeem(investor, sh) ==
    LET e == redeem_err(investor, sh) IN
    IF e # "Ok" THEN Failed
    ELSE LET perf_fee == redeem_perf_fee
             vault_balance == vault - perf_fee
             usdc_amount == usdc_for_shares(fund, sh, vault_balance)
         IN  /\ manager_fee' = manager_fee + perf_fee
             /\ perf_fee_received' = perf_fee_received + perf_fee
             /\ shares' = [shares EXCEPT ![investor] = @ - sh]
             /\ vault' = vault_balance - usdc_amount
             /\ fund' = [fund EXCEPT !.perf_fee_paid = (@ \/ perf_fee > 0),
                                     !.total_shares = @ - sh]
             /\ UNCHANGED <<protocol, requests, now, inflow>>

\* ------------------------------------------------------------------
\* withdraw_early.rs
\* ------------------------------------------------------------------
early_share_value(sh) == usdc_for_shares(fund, sh, vault)

early_payout(sh) ==
    saturating_sub(early_share_value(sh), calculate_early_exit_fee(fund, early_share_value(sh)))

\* the buffer check with the reserve taken on the balance before the payout
buffer_sufficient_pre_nav(sh) ==
    LET payout == early_payout(sh)
        min_buffer_needed == min_buffer_amount(fund, vault)
    IN  vault >= payout + min_buffer_needed

buffer_sufficient(sh) ==
    LET payout == early_payout(sh)
        post_withdrawal_nav == saturating_sub(vault, payout)
        min_buffer_needed == min_buffer_amount(fund, post_withdrawal_nav)
    IN  vault >= payout + min_buffer_needed

\* withdraw_early's checks with the stage constraint left out
withdraw_early_err_any_stage(investor, sh) ==
    IF ~Constructed THEN "AccountNotInitialized"
    ELSE IF ~(sh > 0) THEN "ZeroWithdrawal"
    ELSE IF ~(shares[investor] >= sh) THEN "InsufficientShares"
    ELSE IF ~buffer_sufficient(sh) THEN "InsufficientBuffer"
    ELSE "Ok"

withdraw_early_err(investor, sh) ==
    IF ~Constructed THEN "AccountNotInitialized"
    ELSE IF fund.stage # "Trading" THEN "InvalidStage"
    ELSE IF ~(sh > 0) THEN "ZeroWithdrawal"
    ELSE IF ~(shares[investor] >= sh) THEN "InsufficientShares"
    ELSE IF ~buffer_sufficient(sh) THEN "InsufficientBuffer"
    ELSE "Ok"

withdraw_early(investor, sh) ==
    LET e == withdraw_early_err(investor, sh) IN
    IF e # "Ok" THEN Failed
    ELSE /\ shares' = [shares EXCEPT ![investor] = @ - sh]
         /\ vault' = vault - early_payout(sh)
         /\ fund' = [fund EXCEPT !.total_shares = saturating_sub(@, sh)]
         /\ UNCHANGED <<protocol, manager_fee, requests, now, perf_fee_received, inflow>>

\* ------------------------------------------------------------------
\* request_withdrawal.rs
\* ------------------------------------------------------------------
\* the rate locked at request time rounded up instead of down
nav_per_share_ceil ==
    IF fund.total_shares > 0
    THEN MulDiv(vault, NAV_SCALE, fund.total_shares)
            + (IF MulDiv(vault, NAV_SCALE, fund.total_shares) * fund.total_shares
                    = vault * NAV_SCALE THEN 0 ELSE 1)
    ELSE NAV_SCALE

nav_per_share ==
    IF fund.total_shares > 0 THEN MulDiv(vault, NAV_SCALE, fund.total_shares)
    ELSE NAV_SCALE

request_withdrawal_err(investor, sh) ==
    IF ~Constructed THEN "AccountNotInitialized"
    ELSE IF fund.stage # "Trading" THEN "InvalidStage"
    ELSE IF ~(sh > 0) THEN "ZeroWithdrawal"
    ELSE IF ~(shares[investor] >= sh) THEN "InsufficientShares"
    ELSE "Ok"

\* a request created without advancing the fund's request counter
request_withdrawal_same_index(investor, sh) ==
    LET e == request_withdrawal_err(investor, sh) IN
    IF e # "Ok" THEN Failed
    ELSE /\ fund.pending_request_count < MaxRequests
         /\ requests' = (fund.pending_request_count :>
                [investor |-> investor,
                 shares_requested |-> sh,
                 shares_filled |-> 0,
                 usdc_received |-> 0,
                 nav_per_share_at_request |-> nav_per_share,
                 status |-> "Pending"]) @@ requests
         /\ fund' = [fund EXCEPT !.pending_withdrawal_shares = @ + sh]
         /\ UNCHANGED <<protocol, vault, manager_fee, shares, now, perf_fee_received, inflow>>

request_withdrawal(investor, sh) ==
    LET e == request_withdrawal_err(investor, sh) IN
    IF e # "Ok" THEN Failed
    ELSE /\ fund.pending_request_count < MaxRequests
         /\ requests' = requests @@ (fund.pending_request_count :>
                [investor |-> investor,
                 shares_requested |-> sh,
                 shares_filled |-> 0,
                 usdc_received |-> 0,
                 nav_per_share_at_request |-> nav_per_share,
                 status |-> "Pending"])
         /\ fund' = [fund EXCEPT !.pending_withdrawal_shares = @ + sh,
                                 !.pending_request_count = @ + 1]
         /\ UNCHANGED <<protocol, vault, manager_fee, shares, now, perf_fee_received, inflow>>

\* ------------------------------------------------------------------
\* cancel_withdrawal.rs
\* ------------------------------------------------------------------
\* cancel_withdrawal's checks without the status constraint and the fill check
cancel_withdrawal_err_any_status(investor, request_index) ==
    IF ~fund.exists THEN "AccountNotInitialized"
    ELSE IF request_index \notin DOMAIN requests THEN "AccountNotInitialized"
    ELSE IF requests[request_index].investor # investor THEN "ConstraintSeeds"
    ELSE "Ok"

cancel_withdrawal_err(investor, request_index) ==
    IF ~fund.exists THEN "AccountNotInitialized"
    ELSE IF request_index \notin DOMAIN requests THEN "AccountNotInitialized"
    \* the request account is addressed by the signer's key and the index
    ELSE IF requests[request_index].investor # investor THEN "ConstraintSeeds"
    ELSE IF requests[request_index].status # "Pending" THEN "WithdrawalRequestInactive"
    ELSE IF ~(requests[request_index].shares_filled = 0) THEN "CannotCancelPartialWithdrawal"
    ELSE "Ok"

\* a cancellation that also takes the request's shares out of total_shares
cancel_withdrawal_lowers_total(investor, request_index) ==
    LET e == cancel_withdrawal_err(investor, request_index) IN
    IF e # "Ok" THEN Failed
    ELSE LET shares_to_return == requests[request_index].shares_requested
         IN  /\ fund' = [fund EXCEPT
                    !.pending_withdrawal_shares = saturating_sub(@, shares_to_return),
                    !.total_shares = saturating_sub(@, shares_to_return)]
             /\ requests' = [k \in DOMAIN requests \ {request_index} |-> requests[k]]
             /\ UNCHANGED <<protocol, vault, manager_fee, shares, now, perf_fee_received, inflow>>

\* a cancellation that leaves pending_withdrawal_shares as it was
cancel_withdrawal_keeps_pending(investor, request_index) ==
    LET e == cancel_withdrawal_err(investor, request_index) IN
    IF e # "Ok" THEN Failed
    ELSE /\ requests' = [k \in DOMAIN requests \ {request_index} |-> requests[k]]
         /\ UNCHANGED <<protocol, fund, vault, manager_fee, shares, now, perf_fee_received, inflow>>

cancel_withdrawal(investor, request_index) ==
    LET e == cancel_withdrawal_err(investor, request_index) IN
    IF e # "Ok" THEN Failed
    ELSE LET shares_to_return == requests[request_index].shares_requested
         IN  /\ fund' = [fund EXCEPT !.pending_withdrawal_shares =
                                         saturating_sub(@, shares_to_return)]
             \* close = investor
             /\ requests' = [k \in DOMAIN requests \ {request_index} |-> requests[k]]
             /\ UNCHANGED <<protocol, vault, manager_fee, shares, now, perf_fee_received, inflow>>

\* ------------------------------------------------------------------
\* process_epoch.rs
\* ------------------------------------------------------------------
epoch_ready == now >= fund.last_epoch_ts + fund.epoch_interval_secs

\* the amount owed taken at the current rate instead of the locked one
max_usdc_owed_current_nav(r) == MulDiv(shares_remaining(r), nav_per_share, NAV_SCALE)

max_usdc_owed(r) == MulDiv(shares_remaining(r), r.nav_per_share_at_request, NAV_SCALE)

process_payout(r) == Min(max_usdc_owed(r), vault)

\* the shares released taken as the payout itself, without the rate
shares_to_process_unscaled(r) == process_payout(r)

shares_to_process(r) ==
    IF r.nav_per_share_at_request > 0
    THEN MulDiv(process_payout(r), NAV_SCALE, r.nav_per_share_at_request)
    ELSE 0

\* the checks of handler_process_single with the epoch gate applied in
\* Settlement as well
process_single_withdrawal_err_gate_always(request_index) ==
    IF ~Constructed THEN "AccountNotInitialized"
    ELSE IF request_index \notin DOMAIN requests THEN "AccountNotInitialized"
    ELSE IF ~(fund.stage = "Trading" \/ fund.stage = "Settlement") THEN "InvalidStage"
    ELSE IF ~(requests[request_index].status = "Pending"
              \/ requests[request_index].status = "PartiallyFilled")
         THEN "WithdrawalRequestInactive"
    ELSE IF ~epoch_ready THEN "EpochNotReady"
    ELSE IF ~(shares_remaining(requests[request_index]) > 0) THEN "WithdrawalRequestInactive"
    ELSE "Ok"

process_single_withdrawal_err(request_index) ==
    IF ~Constructed THEN "AccountNotInitialized"
    \* every account is loaded before the first constraint is checked
    ELSE IF request_index \notin DOMAIN requests THEN "AccountNotInitialized"
    ELSE IF ~(fund.stage = "Trading" \/ fund.stage = "Settlement") THEN "InvalidStage"
    ELSE IF ~(requests[request_index].status = "Pending"
              \/ requests[request_index].status = "PartiallyFilled")
         THEN "WithdrawalRequestInactive"
    ELSE IF ~epoch_ready /\ ~(fund.stage = "Settlement") THEN "EpochNotReady"
    ELSE IF ~(shares_remaining(requests[request_index]) > 0) THEN "WithdrawalRequestInactive"
    ELSE "Ok"

\* the status of a request after a fill that brings shares_filled to `filled`
fill_status(r, filled) ==
    IF filled >= r.shares_requested THEN "Completed" ELSE "PartiallyFilled"

\* the early return taken only when the payout is zero
process_is_noop_payout_only(r) == process_payout(r) = 0

\* the early return Ok(()) of handler_process_single: nothing to pay this round
process_is_noop(r) == process_payout(r) = 0 \/ shares_to_process(r) = 0

\* a fill that does not stamp last_epoch_ts
process_single_withdrawal_no_stamp(request_index) ==
    LET e == process_single_withdrawal_err(request_index) IN
    IF e # "Ok" THEN Failed
    ELSE LET r == requests[request_index]
             payout == process_payout(r)
             stp == shares_to_process(r)
             filled == r.shares_filled + stp
         IN  IF process_is_noop(r)
             THEN UNCHANGED vars
             ELSE /\ vault' = vault - payout
                  /\ requests' = [requests EXCEPT ![request_index] =
                        [r EXCEPT !.shares_filled = filled,
                                  !.usdc_received = @ + payout,
                                  !.status = fill_status(r, filled)]]
                  /\ fund' = [fund EXCEPT
                        !.total_shares = saturating_sub(@, stp),
                        !.pending_withdrawal_shares = saturating_sub(@, stp)]
                  /\ UNCHANGED <<protocol, manager_fee, shares, now, perf_fee_received, inflow>>

process_single_withdrawal(request_index) ==
    LET e == process_single_withdrawal_err(request_index) IN
    IF e # "Ok" THEN Failed
    ELSE LET r == requests[request_index]
             payout == process_payout(r)
             stp == shares_to_process(r)
             filled == r.shares_filled + stp
         IN  IF process_is_noop(r)
             THEN UNCHANGED vars
             ELSE /\ vault' = vault - payout
                  /\ requests' = [requests EXCEPT ![request_index] =
                        [r EXCEPT !.shares_filled = filled,
                                  !.usdc_received = @ + payout,
                                  !.status = fill_status(r, filled)]]
                  /\ fund' = [fund EXCEPT
                        !.total_shares = saturating_sub(@, stp),
                        !.pending_withdrawal_shares = saturating_sub(@, stp),
                        !.last_epoch_ts = now]
                  /\ UNCHANGED <<protocol, manager_fee, shares, now, perf_fee_received, inflow>>

\* the epoch trigger with the interval waived in Settlement
process_epoch_err_settlement_exempt ==
    IF ~Constructed THEN "AccountNotInitialized"
    ELSE IF ~(fund.stage = "Trading" \/ fund.stage = "Settlement") THEN "InvalidStage"
    ELSE IF ~epoch_ready /\ ~(fund.stage = "Settlement") THEN "EpochNotReady"
    ELSE "Ok"

process_epoch_err ==
    IF ~Constructed THEN "AccountNotInitialized"
    ELSE IF ~(fund.stage = "Trading" \/ fund.stage = "Settlement") THEN "InvalidStage"
    ELSE IF ~epoch_ready THEN "EpochNotReady"
    ELSE "Ok"

process_epoch ==
    LET e == process_epoch_err IN
    IF e # "Ok" THEN Failed
    ELSE /\ fund' = [fund EXCEPT !.last_epoch_ts = now]
         /\ UNCHANGED <<protocol, vault, manager_fee, shares, requests, now, perf_fee_received, inflow>>

\* ------------------------------------------------------------------
\* Environment: the clock, and token transfers into the vault account
\* ------------------------------------------------------------------
Tick ==
    /\ now + TickLen <= EndOfTime
    /\ now' = now + TickLen
    /\ UNCHANGED accounts

\* an SPL token transfer into the vault's USDC account (trade proceeds,
\* or any holder sending USDC to it)
transfer_in(amount) ==
    /\ Constructed
    /\ inflow + amount <= MaxInflow
    /\ vault' = vault + amount
    /\ inflow' = inflow + amount
    /\ UNCHANGED <<protocol, fund, manager_fee, shares, requests, now, perf_fee_received>>

\* ------------------------------------------------------------------
\* Inputs
\* ------------------------------------------------------------------
ShareInputs(i) == {0, shares[i], shares[i] + 1}
PartShareInputs(i) == ShareInputs(i) \cup {15}
RequestIndexes == 0 .. MaxRequests
NameLenInputs == {4, MAX_NAME_LEN + 1}
SymbolLenInputs == {0, 3}
TradingStartInputs == {now, now + TickLen}
TradingEndInputs(start) == {start, start + TickLen}
\* the arguments of create_fund: one call with every argument valid, and one
\* call for each argument with that argument alone invalid
CreateFundInputs ==
    LET valid == <<4, 3, MAX_DEPOSIT_FEE_BPS, MAX_PERF_FEE_BPS, now + TickLen, now + 2 * TickLen>>
    IN  {valid,
         [valid EXCEPT ![1] = MAX_NAME_LEN + 1],
         [valid EXCEPT ![2] = 0],
         [valid EXCEPT ![3] = MAX_DEPOSIT_FEE_BPS + 1],
         [valid EXCEPT ![4] = MAX_PERF_FEE_BPS + 1],
         [valid EXCEPT ![5] = now],
         [valid EXCEPT ![6] = now + TickLen]}

Next ==
    \/ initialize_protocol
    \/ \E t \in CreateFundInputs : create_fund(t[1], t[2], t[3], t[4], t[5], t[6])
    \/ \E c \in Signers : initialize_share_mint(c)
    \/ \E c \in Signers : initialize_vault_accounts(c)
    \/ \E i \in Investors, a \in DepositAmounts : deposit(i, a)
    \/ \E i \in Investors : \E s \in ShareInputs(i) : withdraw_open(i, s)
    \/ \E i \in Investors : \E s \in ShareInputs(i) : withdraw_early(i, s)
    \/ \E i \in Investors : \E s \in ShareInputs(i) : request_withdrawal(i, s)
    \/ \E i \in Investors, k \in RequestIndexes : cancel_withdrawal(i, k)
    \/ \E k \in RequestIndexes : process_single_withdrawal(k)
    \/ process_epoch
    \/ start_trading
    \/ \E c \in Signers, a \in {0, 1} : execute_trade(c, a)
    \/ end_trading
    \/ finalize_close
    \/ \E i \in Investors : \E s \in PartShareInputs(i) : redeem(i, s)
    \/ Tick
    \/ \E a \in DonateAmounts : transfer_in(a)

Spec == Init /\ [][Next]_vars

\* ------------------------------------------------------------------
\* The spec's early-exit scenario at its own scale: a fund without deposit
\* fee that took 1,000,000 in deposits and started trading.
\* ------------------------------------------------------------------
ScenarioDeposits == 1000 * 1000
ScenarioHoldings == {ScenarioDeposits, 3 * (ScenarioDeposits \div 4), ScenarioDeposits \div 2}
ScenarioShareInputs(i) == {0, ScenarioDeposits \div 4, shares[i], shares[i] + 1}

InitScenario ==
    /\ protocol = [NoProtocol EXCEPT !.exists = TRUE,
                       !.max_deposit_fee_bps = MAX_DEPOSIT_FEE_BPS,
                       !.max_perf_fee_bps = MAX_PERF_FEE_BPS]
    /\ \E a \in ScenarioHoldings :
          shares = [i \in Investors |-> IF i = "A" THEN a ELSE ScenarioDeposits - a]
    /\ fund = [NoFund EXCEPT !.exists = TRUE,
                   !.perf_fee_bps = MAX_PERF_FEE_BPS,
                   !.early_exit_fee_bps = DEFAULT_EARLY_EXIT_FEE_BPS,
                   !.liquidity_buffer_bps = DEFAULT_BUFFER_BPS,
                   !.trading_start_ts = StartTime + TickLen,
                   !.trading_end_ts = StartTime + 2 * TickLen,
                   !.stage = "Trading",
                   !.epoch_interval_secs = DEFAULT_EPOCH_INTERVAL_SECS,
                   !.initial_aum_usdc = ScenarioDeposits,
                   !.total_deposited = ScenarioDeposits,
                   !.share_mint = TRUE,
                   !.vault_usdc_ata = TRUE,
                   !.total_shares = ScenarioDeposits]
    /\ vault = ScenarioDeposits
    /\ manager_fee = 0
    /\ requests = << >>
    /\ now = StartTime + TickLen
    /\ perf_fee_received = 0
    /\ inflow = 0

NextScenario ==
    \/ \E i \in Investors : \E s \in ScenarioShareInputs(i) : withdraw_early(i, s)
    \/ process_epoch
    \/ end_trading
    \/ Tick

SpecScenario == InitScenario /\ [][NextScenario]_vars

\* ------------------------------------------------------------------
\* The share conversions of state.rs on their own: a fund with any
\* total_shares and any positive vault balance, and one conversion of an
\* amount into shares.  inflow is the amount offered and shares["A"] the
\* shares shares_for_deposit returns for it; the fund's totals stay as they
\* are, so that the conversion back is taken against the same total_shares.
\* ------------------------------------------------------------------
InitNav ==
    /\ protocol = [NoProtocol EXCEPT !.exists = TRUE,
                       !.max_deposit_fee_bps = MAX_DEPOSIT_FEE_BPS,
                       !.max_perf_fee_bps = MAX_PERF_FEE_BPS]
    /\ \E t \in 0 .. MaxNavShares :
          fund = [NoFund EXCEPT !.exists = TRUE, !.share_mint = TRUE,
                      !.vault_usdc_ata = TRUE, !.total_shares = t]
    /\ vault \in 1 .. MaxNavVault
    /\ manager_fee = 0
    /\ shares = [i \in Investors |-> 0]
    /\ requests = << >>
    /\ now = StartTime
    /\ perf_fee_received = 0
    /\ inflow = 0

convert_deposit(x) ==
    /\ inflow = 0
    /\ inflow' = x
    /\ shares' = [shares EXCEPT !["A"] = shares_for_deposit(fund, x, vault)]
    /\ UNCHANGED <<protocol, fund, vault, manager_fee, requests, now, perf_fee_received>>

NextNav == \E x \in 1 .. MaxNavAmount : convert_deposit(x)

SpecNav == InitNav /\ [][NextNav]_vars

\* ------------------------------------------------------------------
\* A fund in Trading after its queue paid out a holder and trade proceeds
\* came in: A deposited 40 (39 shares), B deposited 40 or nothing, trading
\* started, A's request for 39 shares was filled at 1.0, and the vault then
\* received proceeds of 0 or 43.  inflow counts the transfers from here on.
\* ------------------------------------------------------------------
ProceedsInputs == {0, 43}

InitProceeds ==
    /\ protocol = [NoProtocol EXCEPT !.exists = TRUE,
                       !.max_deposit_fee_bps = MAX_DEPOSIT_FEE_BPS,
                       !.max_perf_fee_bps = MAX_PERF_FEE_BPS]
    /\ \E b \in {0, 39}, proceeds \in ProceedsInputs :
          /\ shares = [i \in Investors |-> IF i = "A" THEN 39 ELSE b]
          /\ vault = b + proceeds
          /\ manager_fee = IF b = 0 THEN 1 ELSE 2
          /\ fund = [NoFund EXCEPT !.exists = TRUE,
                         !.deposit_fee_bps = MAX_DEPOSIT_FEE_BPS,
                         !.perf_fee_bps = MAX_PERF_FEE_BPS,
                         !.early_exit_fee_bps = DEFAULT_EARLY_EXIT_FEE_BPS,
                         !.liquidity_buffer_bps = DEFAULT_BUFFER_BPS,
                         !.trading_start_ts = StartTime - TickLen,
                         !.trading_end_ts = StartTime + TickLen,
                         !.stage = "Trading",
                         !.last_epoch_ts = StartTime,
                         !.epoch_interval_secs = DEFAULT_EPOCH_INTERVAL_SECS,
                         !.pending_request_count = 1,
                         !.initial_aum_usdc = 39 + b,
                         !.total_deposited = IF b = 0 THEN 40 ELSE 80,
                         !.share_mint = TRUE,
                         !.vault_usdc_ata = TRUE,
                         !.total_shares = b]
    /\ requests = (0 :> [investor |-> "A", shares_requested |-> 39, shares_filled |-> 39,
                         usdc_received |-> 39, nav_per_share_at_request |-> NAV_SCALE,
                         status |-> "Completed"])
    /\ now = StartTime
    /\ perf_fee_received = 0
    /\ inflow = 0

SpecProceeds == InitProceeds /\ [][Next]_vars

\* ==================================================================
\* Properties
\* ==================================================================
\* the supply of the share mint: everything minted and not yet burned
mint_supply == shares["A"] + shares["B"]

\* the requests of the queue that were cancelled: their records are closed
CancelledIndexes == (0 .. fund.pending_request_count - 1) \ DOMAIN requests

StatusRank(st) == IF st = "Pending" THEN 0 ELSE IF st = "PartiallyFilled" THEN 1 ELSE 2

\* ------------------------------------------------------------------
\* C1  Share conservation: in every state the fund's total_shares equals
\*     the shares minted minus the shares burned (the sum of the investors'
\*     share balances), and it is never negative.
\*     handler_process_single reduces total_shares and burns nothing, so
\*     this does not hold of the program.
\* ------------------------------------------------------------------
C1_ShareConservation ==
    /\ fund.total_shares = mint_supply
    /\ fund.total_shares >= 0

\* ------------------------------------------------------------------
\* C2  Stage monotonicity: the stage changes only by Open->Trading in
\*     start_trading, Trading->Settlement in end_trading and
\*     Settlement->Closed in finalize_close; a transition instruction
\*     called on a fund in any other stage returns InvalidStage (and, as a
\*     failed instruction, changes nothing); no other step changes the stage.
\* ------------------------------------------------------------------
C2_StageMonotonicity ==
    /\ [](Constructed =>
            /\ (fund.stage # "Open" => start_trading_err = "InvalidStage")
            /\ (fund.stage # "Trading" => end_trading_err = "InvalidStage")
            /\ (fund.stage # "Settlement" => finalize_close_err = "InvalidStage"))
    /\ [][fund'.stage # fund.stage =>
            \/ fund.stage = "Open" /\ fund'.stage = "Trading" /\ start_trading
            \/ fund.stage = "Trading" /\ fund'.stage = "Settlement" /\ end_trading
            \/ fund.stage = "Settlement" /\ fund'.stage = "Closed" /\ finalize_close]_vars

\* a fund that went through all its stages and is refused every transition
C2_Witness ==
    /\ fund.stage = "Closed"
    /\ start_trading_err = "InvalidStage"
    /\ end_trading_err = "InvalidStage"
    /\ finalize_close_err = "InvalidStage"

\* ------------------------------------------------------------------
\* C3  Performance fee paid once: what the manager's fee account has
\*     received as performance fee is 0 until the fee is marked paid and
\*     exactly perf_fee_due_usdc from then on, whatever redeem calls follow;
\*     a successful redeem of a fund with a fee due leaves it paid; and
\*     perf_fee_paid never goes from true back to false.
\* ------------------------------------------------------------------
C3_PerfFeePaidOnce ==
    /\ [](perf_fee_received = IF fund.perf_fee_paid THEN fund.perf_fee_due_usdc ELSE 0)
    /\ [][/\ fund.perf_fee_paid => fund'.perf_fee_paid
          /\ (fund.stage = "Closed" /\ fund.perf_fee_due_usdc > 0) =>
              \A i \in Investors : \A s \in PartShareInputs(i) :
                (redeem_err(i, s) = "Ok" /\ redeem(i, s))
                   => /\ fund'.perf_fee_paid
                      /\ perf_fee_received' = fund.perf_fee_due_usdc
                      /\ fund'.perf_fee_due_usdc = fund.perf_fee_due_usdc]_vars

\* a closed fund with a fee due and paid, after two redemptions of 15 shares
\* out of the 39 that a deposit of 40 minted
C3_Witness ==
    /\ fund.stage = "Closed"
    /\ fund.perf_fee_due_usdc > 0
    /\ fund.perf_fee_paid
    /\ perf_fee_received = fund.perf_fee_due_usdc
    /\ fund.total_deposited = 40
    /\ shares["A"] = 39 - 2 * 15

\* ------------------------------------------------------------------
\* C4  Every withdrawal request has shares_filled <= shares_requested,
\*     after any number of process_withdrawal_request calls, at any locked
\*     rate and any vault balance.
\* ------------------------------------------------------------------
C4_FilledAtMostRequested ==
    \A k \in DOMAIN requests :
        requests[k].shares_filled <= requests[k].shares_requested

\* a request filled in part, locked at a rate above 1.0
C4_Witness ==
    \E k \in DOMAIN requests :
        /\ requests[k].status = "PartiallyFilled"
        /\ requests[k].shares_filled > 0
        /\ requests[k].shares_filled < requests[k].shares_requested
        /\ requests[k].nav_per_share_at_request > NAV_SCALE

\* ------------------------------------------------------------------
\* C5  A request's status only advances: Pending -> PartiallyFilled ->
\*     Completed, or Pending -> cancelled (the record is closed). A
\*     Completed request is never changed, processed or cancelled again, a
\*     cancelled one never comes back and cannot be processed or cancelled,
\*     and a request with a fill is never Pending.
\* ------------------------------------------------------------------
C5_StatusOnlyAdvances ==
    /\ [](/\ \A k \in DOMAIN requests :
               /\ requests[k].status = "Completed" =>
                    /\ process_single_withdrawal_err(k) # "Ok"
                    /\ \A i \in Investors : cancel_withdrawal_err(i, k) # "Ok"
               /\ requests[k].shares_filled > 0 => requests[k].status # "Pending"
          /\ \A k \in CancelledIndexes :
               /\ process_single_withdrawal_err(k) # "Ok"
               /\ \A i \in Investors : cancel_withdrawal_err(i, k) # "Ok")
    /\ [][requests' # requests =>
            /\ \A k \in DOMAIN requests \cap DOMAIN requests' :
                 /\ StatusRank(requests'[k].status) >= StatusRank(requests[k].status)
                 /\ requests[k].status = "Completed" => requests'[k] = requests[k]
            /\ \A k \in DOMAIN requests \ DOMAIN requests' :
                 requests[k].status = "Pending"
            /\ \A k \in DOMAIN requests' \ DOMAIN requests :
                 /\ k = fund.pending_request_count
                 /\ requests'[k].status = "Pending"]_vars

\* one request completed and another one cancelled
C5_Witness ==
    /\ \E k \in DOMAIN requests : requests[k].status = "Completed"
    /\ CancelledIndexes # {}

\* ------------------------------------------------------------------
\* C6  In every state pending_withdrawal_shares <= total_shares.
\*     request_withdrawal reserves nothing: an investor can queue the same
\*     shares twice, or queue them and leave through withdraw_early, so
\*     this does not hold of the program.
\* ------------------------------------------------------------------
C6_PendingAtMostTotal ==
    fund.pending_withdrawal_shares <= fund.total_shares

\* ------------------------------------------------------------------
\* C7  A queued request settles at its locked rate: no step changes
\*     nav_per_share_at_request of a request, and every step that fills a
\*     request pays min(floor(shares_remaining * locked rate / 1e6), vault)
\*     and releases floor(payout * 1e6 / locked rate) shares, whatever the
\*     vault balance and total_shares have become since the request.
\* ------------------------------------------------------------------
C7_SettlesAtLockedRate ==
    [][requests' # requests =>
        \A k \in DOMAIN requests \cap DOMAIN requests' :
          LET r == requests[k]
              locked == r.nav_per_share_at_request
              paid == Min(MulDiv(r.shares_requested - r.shares_filled, locked, NAV_SCALE), vault)
          IN  /\ requests'[k].nav_per_share_at_request = locked
              /\ requests'[k] # r =>
                    /\ requests'[k].usdc_received = r.usdc_received + paid
                    /\ requests'[k].shares_filled =
                          r.shares_filled + MulDiv(paid, NAV_SCALE, locked)
                    /\ vault' = vault - paid]_vars

\* a request locked at 1.0 and paid in full at 1.0 although the vault,
\* with the inflow it received, is worth more per share
C7_Witness ==
    \E k \in DOMAIN requests :
        /\ requests[k].status = "Completed"
        /\ requests[k].nav_per_share_at_request = NAV_SCALE
        /\ requests[k].usdc_received = requests[k].shares_requested
        /\ inflow > 0
        /\ fund.total_shares > 0
        /\ vault > fund.total_shares

\* ------------------------------------------------------------------
\* C8  cancel_withdrawal on a partially filled request (shares_filled > 0)
\*     returns CannotCancelPartialWithdrawal.
\*     The account constraint status == Pending is checked before the
\*     handler runs and a request with a fill is never Pending, so the
\*     call returns WithdrawalRequestInactive: this does not hold of the
\*     program.
\* ------------------------------------------------------------------
C8_PartialCancelError ==
    \A k \in DOMAIN requests :
        (requests[k].shares_filled > 0 /\ requests[k].status = "PartiallyFilled") =>
            cancel_withdrawal_err(requests[k].investor, k) = "CannotCancelPartialWithdrawal"

\* ------------------------------------------------------------------
\* C9  The early-exit scenario: liquidity_buffer_bps = 1000, a vault
\*     balance of 1,000,000 and a payout of 950,000.
\* ------------------------------------------------------------------
C9_Scenario(i, s) ==
    /\ fund.stage = "Trading"
    /\ fund.liquidity_buffer_bps = 1000
    /\ vault = 1000000
    /\ s > 0
    /\ shares[i] >= s
    /\ early_payout(s) = 950000

\* C9 as the spec states it: in the scenario withdraw_early returns
\* InsufficientBuffer
C9_ScenarioFails ==
    \A i \in Investors : \A s \in ScenarioShareInputs(i) :
        C9_Scenario(i, s) => withdraw_early_err(i, s) = "InsufficientBuffer"

\* C9  as the program has it: in the scenario the reserve is
\*     floor(50,000 * 1000 / 10000) = 5,000 and 950,000 + 5,000 <= 1,000,000,
\*     so withdraw_early succeeds: it burns the shares, pays 950,000 and
\*     leaves 50,000 in the vault.
C9_ScenarioSucceeds ==
    /\ [](\A i \in Investors : \A s \in ScenarioShareInputs(i) :
            C9_Scenario(i, s) =>
                /\ min_buffer_amount(fund, vault - 950000) = 5000
                /\ 950000 + 5000 <= vault
                /\ withdraw_early_err(i, s) = "Ok")
    /\ [][\A i \in Investors : \A s \in ScenarioShareInputs(i) :
            (C9_Scenario(i, s) /\ withdraw_early(i, s)) =>
                /\ vault' = 50000
                /\ shares'[i] = shares[i] - s
                /\ fund'.total_shares = fund.total_shares - s]_vars

\* the state after the scenario's withdrawal: the only holder has left,
\* and the vault keeps the exit fee
C9_Witness ==
    /\ fund.stage = "Trading"
    /\ vault = 50000
    /\ fund.total_shares = 0
    /\ mint_supply = 0

\* ------------------------------------------------------------------
\* C10 Fee caps: while no fund exists, create_fund with a deposit fee above
\*     protocol.max_deposit_fee_bps or a performance fee above
\*     protocol.max_perf_fee_bps fails, with DepositFeeExceedsMax or
\*     PerfFeeExceedsMax when name and symbol are valid; with both fees
\*     within the caps it returns neither error; and a fund that is created
\*     has both fees within the caps.
\* ------------------------------------------------------------------
FeeProbes == {0, MAX_DEPOSIT_FEE_BPS, MAX_DEPOSIT_FEE_BPS + 1,
              MAX_PERF_FEE_BPS, MAX_PERF_FEE_BPS + 1, 2^16 - 1}

C10_FeeCaps ==
    /\ []((protocol.exists /\ ~fund.exists) =>
            \A n \in NameLenInputs, y \in SymbolLenInputs, d \in FeeProbes,
               p \in FeeProbes, s \in TradingStartInputs :
              \A e \in TradingEndInputs(s) :
                LET err == create_fund_err(n, y, d, p, s, e)
                    valid_text == n \in 1 .. MAX_NAME_LEN /\ y \in 1 .. MAX_SYMBOL_LEN
                IN  /\ d > protocol.max_deposit_fee_bps =>
                          /\ err # "Ok"
                          /\ valid_text => err = "DepositFeeExceedsMax"
                    /\ (d <= protocol.max_deposit_fee_bps /\ p > protocol.max_perf_fee_bps) =>
                          /\ err # "Ok"
                          /\ valid_text => err = "PerfFeeExceedsMax"
                    /\ (d <= protocol.max_deposit_fee_bps /\ p <= protocol.max_perf_fee_bps) =>
                          err \notin {"DepositFeeExceedsMax", "PerfFeeExceedsMax"})
    /\ [][(~fund.exists /\ fund'.exists) =>
            /\ fund'.deposit_fee_bps <= protocol.max_deposit_fee_bps
            /\ fund'.perf_fee_bps <= protocol.max_perf_fee_bps]_vars

\* a fund created with both fees exactly at the caps
C10_Witness ==
    /\ fund.exists
    /\ fund.deposit_fee_bps = protocol.max_deposit_fee_bps
    /\ fund.perf_fee_bps = protocol.max_perf_fee_bps
    /\ protocol.max_perf_fee_bps = MAX_PERF_FEE_BPS

\* ------------------------------------------------------------------
\* C11 Every fund that exists has its three fee rates within the caps of
\*     the ProtocolConfig: deposit_fee_bps <= max_deposit_fee_bps,
\*     perf_fee_bps <= max_perf_fee_bps and
\*     early_exit_fee_bps <= max_early_exit_fee_bps.
\*     initialize_protocol never sets max_early_exit_fee_bps (it stays 0)
\*     and create_fund sets early_exit_fee_bps to 500 without a check, so
\*     this does not hold of the program.
\* ------------------------------------------------------------------
C11_FeesWithinCaps ==
    fund.exists =>
        /\ fund.deposit_fee_bps <= protocol.max_deposit_fee_bps
        /\ fund.perf_fee_bps <= protocol.max_perf_fee_bps
        /\ fund.early_exit_fee_bps <= protocol.max_early_exit_fee_bps

\* ------------------------------------------------------------------
\* C12 NAV consistency: for every total_shares and all positive x and V,
\*     usdc_for_shares(shares_for_deposit(x, V), V) <= x, both taken
\*     against the same total_shares.  (At these amounts no product leaves
\*     the u64 range, where the program's casts would truncate.)
\* ------------------------------------------------------------------
C12_NavConsistency ==
    inflow > 0 => usdc_for_shares(fund, shares["A"], vault) <= inflow

\* a conversion that loses value to the vault by rounding
C12_Witness ==
    /\ fund.total_shares > 0
    /\ inflow > 0
    /\ shares["A"] > 0
    /\ usdc_for_shares(fund, shares["A"], vault) < inflow

\* the errors that say an instruction was called in a stage it is not allowed in
StageErrors == {"InvalidStage", "DepositsNotAllowed", "WithdrawalsNotAllowed", "TradingNotAllowed"}

AmountProbes == {0, 1, 40}

\* ------------------------------------------------------------------
\* C13 Each instruction is legal only in its stage: on a fund whose accounts
\*     are set up, deposit and withdraw_open outside Open, withdraw_early,
\*     request_withdrawal and execute_trade outside Trading,
\*     process_single_withdrawal and process_epoch outside Trading and
\*     Settlement, and redeem outside Closed return a stage error (and, as
\*     failed instructions, change nothing); execute_trade by anyone but the
\*     manager fails in every stage; in its own stage no instruction returns
\*     a stage error.
\* ------------------------------------------------------------------
C13_StageGates ==
    Constructed =>
        /\ \A a \in AmountProbes :
             /\ (fund.stage # "Open") <=> (deposit_err(a) = "DepositsNotAllowed")
             /\ deposit_err(a) \in StageErrors => deposit_err(a) = "DepositsNotAllowed"
             /\ (fund.stage # "Trading") <=> (execute_trade_err(Manager, a) = "TradingNotAllowed")
             /\ \A c \in Signers \ {Manager} : execute_trade_err(c, a) = "UnauthorizedManager"
        /\ \A i \in Investors : \A s \in PartShareInputs(i) :
             /\ (fund.stage # "Open") <=> (withdraw_open_err(i, s) = "WithdrawalsNotAllowed")
             /\ (fund.stage # "Trading") <=> (withdraw_early_err(i, s) = "InvalidStage")
             /\ (fund.stage # "Trading") <=> (request_withdrawal_err(i, s) = "InvalidStage")
             /\ (fund.stage # "Closed") <=> (redeem_err(i, s) = "WithdrawalsNotAllowed")
             /\ {withdraw_open_err(i, s), withdraw_early_err(i, s),
                 request_withdrawal_err(i, s), redeem_err(i, s)} \cap StageErrors
                   \subseteq {"WithdrawalsNotAllowed", "InvalidStage"}
        /\ (fund.stage \notin {"Trading", "Settlement"}) <=> (process_epoch_err = "InvalidStage")
        /\ \A k \in DOMAIN requests :
             (fund.stage \notin {"Trading", "Settlement"})
                <=> (process_single_withdrawal_err(k) = "InvalidStage")

\* a fund in Settlement with a holder and a live request: the queue can be
\* processed, every other investor instruction is refused for the stage
C13_Witness ==
    /\ fund.stage = "Settlement"
    /\ \E k \in DOMAIN requests : process_single_withdrawal_err(k) = "Ok"
    /\ \E i \in Investors :
         /\ shares[i] > 0
         /\ withdraw_early_err(i, shares[i]) = "InvalidStage"
         /\ redeem_err(i, shares[i]) = "WithdrawalsNotAllowed"
    /\ deposit_err(40) = "DepositsNotAllowed"

\* ------------------------------------------------------------------
\* C14 Once a fund is Closed, redeem is the only instruction that can
\*     succeed on it: deposit, withdraw_open, withdraw_early,
\*     request_withdrawal, cancel_withdrawal, process_single_withdrawal,
\*     process_epoch, start_trading, execute_trade, end_trading and
\*     finalize_close all fail.
\*     CancelWithdrawal has no stage constraint: a request still Pending
\*     when the fund closes can be cancelled, which closes the record and
\*     lowers pending_withdrawal_shares, so this does not hold of the
\*     program.
\* ------------------------------------------------------------------
C14_ClosedOnlyRedeem ==
    (Constructed /\ fund.stage = "Closed") =>
        /\ \A a \in AmountProbes :
             /\ deposit_err(a) # "Ok"
             /\ \A c \in Signers : execute_trade_err(c, a) # "Ok"
        /\ \A i \in Investors : \A s \in PartShareInputs(i) :
             /\ withdraw_open_err(i, s) # "Ok"
             /\ withdraw_early_err(i, s) # "Ok"
             /\ request_withdrawal_err(i, s) # "Ok"
        /\ \A k \in RequestIndexes :
             /\ process_single_withdrawal_err(k) # "Ok"
             /\ \A i \in Investors : cancel_withdrawal_err(i, k) # "Ok"
        /\ process_epoch_err # "Ok"
        /\ start_trading_err # "Ok"
        /\ end_trading_err # "Ok"
        /\ finalize_close_err # "Ok"

\* an instruction that returned the error err, taken as the step act, changed nothing
Refused(err, act) == (err # "Ok" /\ act) => UNCHANGED vars

C16_RedeemSucceeds ==
    (Constructed /\ fund.stage = "Closed") =>
        \A i \in Investors : \A s \in PartShareInputs(i) :
            (0 < s /\ s <= shares[i]) => redeem_err(i, s) = "Ok"

\* ------------------------------------------------------------------
\* C17 deposit(amount) with amount > 0 on a fund in Open succeeds; it pays
\*     fee = floor(amount * deposit_fee_bps / 10000) to the manager, moves
\*     amount - fee into the vault and mints amount - fee shares to the
\*     investor when total_shares = 0, and otherwise
\*     floor((amount - fee) * total_shares / vault balance before the
\*     deposit); total_shares grows by the shares minted and total_deposited
\*     by the gross amount.
\* ------------------------------------------------------------------
C17_DepositEffect ==
    /\ []((Constructed /\ fund.stage = "Open") =>
            \A a \in AmountProbes : a > 0 => deposit_err(a) = "Ok")
    /\ [][(fund.stage = "Open" /\ accounts' # accounts) =>
            \A i \in Investors : \A a \in DepositAmounts :
              (a > 0 /\ deposit(i, a)) =>
                LET fee == (a * fund.deposit_fee_bps) \div 10000
                    net == a - fee
                    minted == IF fund.total_shares = 0 THEN net
                              ELSE (net * fund.total_shares) \div vault
                IN  /\ manager_fee' = manager_fee + fee
                    /\ vault' = vault + net
                    /\ shares' = [shares EXCEPT ![i] = shares[i] + minted]
                    /\ fund'.total_shares = fund.total_shares + minted
                    /\ fund'.total_deposited = fund.total_deposited + a
                    /\ requests' = requests]_vars

\* a first deposit of 40 minted 39 shares 1:1, the vault then received 13,
\* and a second deposit of 40 minted floor(39 * 39 / 52) = 29 shares
C17_Witness ==
    /\ fund.stage = "Open"
    /\ fund.total_deposited = 80
    /\ inflow = 13
    /\ vault = 39 + 13 + 39
    /\ manager_fee = 2
    /\ fund.total_shares = 39 + 29
    /\ mint_supply = 39 + 29

\* ------------------------------------------------------------------
\* C18 withdraw_open (in Open) and redeem (in Closed) of `sh` shares pay
\*     floor(sh * vault balance / total_shares), or 0 when total_shares = 0,
\*     burn sh shares of the investor and lower total_shares by sh; for
\*     redeem the vault balance is the one left after the performance-fee
\*     transfer of the same call.  The payout never exceeds the vault
\*     balance when sh <= total_shares.
\* ------------------------------------------------------------------
C18_PayoutForShares ==
    /\ [](\A i \in Investors : \A s \in PartShareInputs(i) :
            (fund.total_shares > 0 /\ s <= fund.total_shares) =>
                (s * vault) \div fund.total_shares <= vault)
    /\ [][(fund.stage \in {"Open", "Closed"} /\ accounts' # accounts) =>
            \A i \in Investors : \A s \in PartShareInputs(i) :
              /\ withdraw_open(i, s) =>
                   LET pay == IF fund.total_shares = 0 THEN 0
                              ELSE (s * vault) \div fund.total_shares
                   IN  /\ vault' = vault - pay
                       /\ shares' = [shares EXCEPT ![i] = shares[i] - s]
                       /\ fund'.total_shares = fund.total_shares - s
                       /\ manager_fee' = manager_fee
              /\ redeem(i, s) =>
                   LET fee == IF fund.perf_fee_due_usdc > 0 /\ ~fund.perf_fee_paid
                              THEN fund.perf_fee_due_usdc ELSE 0
                       pay == IF fund.total_shares = 0 THEN 0
                              ELSE (s * (vault - fee)) \div fund.total_shares
                   IN  /\ vault' = vault - fee - pay
                       /\ shares' = [shares EXCEPT ![i] = shares[i] - s]
                       /\ fund'.total_shares = fund.total_shares - s
                       /\ manager_fee' = manager_fee + fee]_vars

\* B withdrew its 39 shares in Open for 39; after proceeds of 13 and a fee of
\* 3, A redeemed 15 of 39 shares for floor(15 * 49 / 39) = 18
C18_Witness ==
    /\ fund.stage = "Closed"
    /\ fund.total_deposited = 80
    /\ shares = [i \in Investors |-> IF i = "A" THEN 24 ELSE 0]
    /\ fund.total_shares = 24
    /\ perf_fee_received = 3
    /\ vault = 39 + 13 - 3 - 18

\* ------------------------------------------------------------------
\* C19 an instruction whose decrement of total_shares or of
\*     pending_withdrawal_shares would go below zero is refused: whenever
\*     withdraw_early, process_single_withdrawal or cancel_withdrawal is
\*     accepted, the amount it subtracts is at most the counter
\* ------------------------------------------------------------------
C19_EarlyDecrementChecked ==
    \A i \in Investors : \A s \in PartShareInputs(i) :
        withdraw_early_err(i, s) = "Ok" => s <= fund.total_shares

C19_ProcessDecrementChecked ==
    \A k \in DOMAIN requests :
        (process_single_withdrawal_err(k) = "Ok" /\ ~process_is_noop(requests[k])) =>
            /\ shares_to_process(requests[k]) <= fund.total_shares
            /\ shares_to_process(requests[k]) <= fund.pending_withdrawal_shares

C19_CancelDecrementChecked ==
    \A i \in Investors : \A k \in DOMAIN requests :
        cancel_withdrawal_err(i, k) = "Ok" =>
            requests[k].shares_requested <= fund.pending_withdrawal_shares

C19_DecrementsChecked ==
    /\ C19_EarlyDecrementChecked
    /\ C19_ProcessDecrementChecked
    /\ C19_CancelDecrementChecked

\* ------------------------------------------------------------------
\* C20 for every investor, the shares_remaining of the investor's live
\*     (Pending or PartiallyFilled) requests sum to at most the investor's
\*     share balance
\* ------------------------------------------------------------------
RECURSIVE SumRemaining(_, _)
SumRemaining(investor, ks) ==
    IF ks = {} THEN 0
    ELSE LET k == CHOOSE x \in ks : TRUE
             r == requests[k]
             live == r.investor = investor /\ r.status \in {"Pending", "PartiallyFilled"}
         IN  (IF live THEN shares_remaining(r) ELSE 0)
                 + SumRemaining(investor, ks \ {k})

C20_RequestsCoveredByBalance ==
    \A i \in Investors : SumRemaining(i, DOMAIN requests) <= shares[i]

\* ------------------------------------------------------------------
\* C21 over the life of a request the cumulative usdc_received is at most the
\*     value of the shares filled at the locked rate, and so at most
\*     floor(shares_requested * nav_per_share_at_request / 1_000_000)
\* ------------------------------------------------------------------
C21_PaidAtMostFilledValue ==
    \A k \in DOMAIN requests :
        requests[k].usdc_received <=
            MulDiv(requests[k].shares_filled, requests[k].nav_per_share_at_request, NAV_SCALE)

C21_PaidAtMostRequestedValue ==
    \A k \in DOMAIN requests :
        requests[k].usdc_received <=
            MulDiv(requests[k].shares_requested, requests[k].nav_per_share_at_request, NAV_SCALE)

C21_PaidAtMostLockedValue == C21_PaidAtMostFilledValue /\ C21_PaidAtMostRequestedValue

\* ------------------------------------------------------------------
\* C22 a process_single_withdrawal that pays request k pays
\*     payout = min(floor(shares_remaining * locked rate / 1_000_000), vault),
\*     releases stp = floor(payout * 1_000_000 / locked rate) shares, adds
\*     both to the request, sets Completed exactly when shares_filled reaches
\*     shares_requested and PartiallyFilled otherwise, lowers total_shares
\*     and pending_withdrawal_shares by stp and stamps last_epoch_ts = now
\* ------------------------------------------------------------------
C22_ProcessEffect ==
    [][requests' # requests =>
        \A k \in DOMAIN requests :
            process_single_withdrawal(k) =>
                LET r == requests[k]
                    rate == r.nav_per_share_at_request
                    owed == MulDiv(r.shares_requested - r.shares_filled, rate, NAV_SCALE)
                    payout == IF owed <= vault THEN owed ELSE vault
                    stp == MulDiv(payout, NAV_SCALE, rate)
                IN  /\ vault' = vault - payout
                    /\ requests'[k].usdc_received = r.usdc_received + payout
                    /\ requests'[k].shares_filled = r.shares_filled + stp
                    /\ requests'[k].status = "Completed"
                            <=> r.shares_filled + stp >= r.shares_requested
                    /\ requests'[k].status = "PartiallyFilled"
                            <=> r.shares_filled + stp < r.shares_requested
                    /\ fund'.total_shares = fund.total_shares - stp
                    /\ fund'.pending_withdrawal_shares = fund.pending_withdrawal_shares - stp
                    /\ fund'.last_epoch_ts = now]_vars

\* the same effect with the two counters lowered as the code lowers them,
\* stopping at zero
C22_ProcessEffectSaturating ==
    [][requests' # requests =>
        \A k \in DOMAIN requests :
            process_single_withdrawal(k) =>
                LET r == requests[k]
                    rate == r.nav_per_share_at_request
                    owed == MulDiv(r.shares_requested - r.shares_filled, rate, NAV_SCALE)
                    payout == IF owed <= vault THEN owed ELSE vault
                    stp == MulDiv(payout, NAV_SCALE, rate)
                    less(a, b) == IF a >= b THEN a - b ELSE 0
                IN  /\ vault' = vault - payout
                    /\ requests'[k].usdc_received = r.usdc_received + payout
                    /\ requests'[k].shares_filled = r.shares_filled + stp
                    /\ requests'[k].status = "Completed"
                            <=> r.shares_filled + stp >= r.shares_requested
                    /\ requests'[k].status = "PartiallyFilled"
                            <=> r.shares_filled + stp < r.shares_requested
                    /\ fund'.total_shares = less(fund.total_shares, stp)
                    /\ fund'.pending_withdrawal_shares = less(fund.pending_withdrawal_shares, stp)
                    /\ fund'.last_epoch_ts = now
                    /\ UNCHANGED <<protocol, manager_fee, shares, now, perf_fee_received, inflow>>]_vars

\* ------------------------------------------------------------------
\* C23 process_single_withdrawal on a live request with shares remaining is
\*     permitted iff now >= last_epoch_ts + epoch_interval_secs or the fund
\*     is in Settlement: in Trading before the interval has elapsed it fails
\*     with EpochNotReady, in Settlement it is accepted whatever the interval
\* ------------------------------------------------------------------
C23_EpochGate ==
    \A k \in DOMAIN requests :
        LET r == requests[k]
            live == r.status \in {"Pending", "PartiallyFilled"}
                        /\ r.shares_requested > r.shares_filled
            elapsed == now >= fund.last_epoch_ts + fund.epoch_interval_secs
        IN  (live /\ fund.stage \in {"Trading", "Settlement"}) =>
                /\ process_single_withdrawal_err(k) = "Ok"
                        <=> (elapsed \/ fund.stage = "Settlement")
                /\ (fund.stage = "Trading" /\ ~elapsed) =>
                        process_single_withdrawal_err(k) = "EpochNotReady"
                /\ fund.stage = "Settlement" => process_single_withdrawal_err(k) = "Ok"

\* a live request in Trading right after a fill stamped last_epoch_ts = now
C23_Witness ==
    /\ fund.stage = "Trading"
    /\ fund.last_epoch_ts = now
    /\ \E k \in DOMAIN requests :
            /\ requests[k].status = "PartiallyFilled"
            /\ process_single_withdrawal_err(k) = "EpochNotReady"

\* a live request in Settlement before the interval has elapsed
C23_WitnessSettlement ==
    /\ fund.stage = "Settlement"
    /\ now < fund.last_epoch_ts + fund.epoch_interval_secs
    /\ \E k \in DOMAIN requests : process_single_withdrawal_err(k) = "Ok"

\* ------------------------------------------------------------------
\* C24 when the payout or the shares to release come out as zero (empty
\*     vault, locked rate of zero, or a payout too small to convert back to
\*     a whole share) an accepted process_single_withdrawal changes nothing:
\*     no transfer, no change to the request, to total_shares, to
\*     pending_withdrawal_shares or to last_epoch_ts
\* ------------------------------------------------------------------
C24_NothingToPay(k) ==
    LET r == requests[k]
        rate == r.nav_per_share_at_request
        owed == MulDiv(r.shares_requested - r.shares_filled, rate, NAV_SCALE)
        payout == IF owed <= vault THEN owed ELSE vault
    IN  payout = 0 \/ rate = 0 \/ MulDiv(payout, NAV_SCALE, rate) = 0

C24_NoopWhenNothingToPay ==
    [][\A k \in DOMAIN requests :
            (process_single_withdrawal_err(k) = "Ok" /\ C24_NothingToPay(k)
                /\ process_single_withdrawal(k)) => UNCHANGED vars]_vars

\* an accepted call on a request whose one remaining share is owed 1 USDC,
\* which converts back to floor(1_000_000 / 1_333_333) = 0 shares
C24_Witness ==
    \E k \in DOMAIN requests :
        /\ process_single_withdrawal_err(k) = "Ok"
        /\ requests[k].status = "PartiallyFilled"
        /\ vault >= 1
        /\ MulDiv(requests[k].shares_requested - requests[k].shares_filled,
                  requests[k].nav_per_share_at_request, NAV_SCALE) = 1
        /\ requests[k].nav_per_share_at_request > NAV_SCALE

\* ------------------------------------------------------------------
\* Processing is called again and again on every request: a call that would
\* change something is eventually made.
\* ------------------------------------------------------------------
SpecLive == Spec /\ \A k \in RequestIndexes : WF_vars(process_single_withdrawal(k))

\* ------------------------------------------------------------------
\* C25 a live request whose amount still owed at the locked rate stays
\*     covered by the vault is eventually Completed with
\*     shares_filled = shares_requested, when processing is called
\*     repeatedly while the gate allows it (in Settlement: always)
\* ------------------------------------------------------------------
C25_Live(k) ==
    k \in DOMAIN requests /\ requests[k].status \in {"Pending", "PartiallyFilled"}

C25_Covered(k) ==
    vault >= MulDiv(requests[k].shares_requested - requests[k].shares_filled,
                    requests[k].nav_per_share_at_request, NAV_SCALE)

C25_Done(k) ==
    /\ k \in DOMAIN requests
    /\ requests[k].status = "Completed"
    /\ requests[k].shares_filled = requests[k].shares_requested

C25_CoveredRequestCompletes ==
    \A k \in RequestIndexes :
        (C25_Live(k) /\ fund.stage = "Settlement")
            ~> (\/ C25_Done(k)
                \/ k \notin DOMAIN requests
                \/ fund.stage # "Settlement"
                \/ ~C25_Covered(k))

\* ------------------------------------------------------------------
\* C26 in Trading, request_withdrawal(sh) with sh > 0 and a balance of at
\*     least sh creates, at index pending_request_count, a Pending request
\*     with shares_filled = 0, usdc_received = 0 and the rate
\*     floor(vault * 1_000_000 / total_shares) (1_000_000 when total_shares
\*     is 0), adds sh to pending_withdrawal_shares and 1 to
\*     pending_request_count; with sh = 0 it fails with ZeroWithdrawal, with
\*     sh above the balance with InsufficientShares
\* ------------------------------------------------------------------
C26_RequestEffect ==
    /\ [](fund.stage = "Trading" =>
            \A i \in Investors : \A s \in ShareInputs(i) :
                /\ request_withdrawal_err(i, s) = "Ok" <=> (s > 0 /\ shares[i] >= s)
                /\ s = 0 => request_withdrawal_err(i, s) = "ZeroWithdrawal"
                /\ (s > 0 /\ shares[i] < s) =>
                        request_withdrawal_err(i, s) = "InsufficientShares")
    /\ [][requests' # requests =>
            \A i \in Investors : \A s \in ShareInputs(i) :
                request_withdrawal(i, s) =>
                    LET k == fund.pending_request_count
                        rate == IF fund.total_shares = 0 THEN NAV_SCALE
                                ELSE MulDiv(vault, NAV_SCALE, fund.total_shares)
                    IN  /\ fund.stage = "Trading" /\ s > 0 /\ shares[i] >= s
                        /\ k \notin DOMAIN requests
                        /\ DOMAIN requests' = DOMAIN requests \cup {k}
                        /\ \A j \in DOMAIN requests : requests'[j] = requests[j]
                        /\ requests'[k].investor = i
                        /\ requests'[k].shares_requested = s
                        /\ requests'[k].status = "Pending"
                        /\ requests'[k].shares_filled = 0
                        /\ requests'[k].usdc_received = 0
                        /\ requests'[k].nav_per_share_at_request = rate
                        /\ fund' = [fund EXCEPT
                                !.pending_withdrawal_shares = fund.pending_withdrawal_shares + s,
                                !.pending_request_count = fund.pending_request_count + 1]
                        /\ UNCHANGED <<vault, shares, manager_fee>>]_vars

\* the request of 39 shares made with 52 in the vault and 39 shares in issue
C26_Witness ==
    /\ fund.stage = "Trading"
    /\ fund.pending_request_count = 1
    /\ fund.pending_withdrawal_shares = 39
    /\ 0 \in DOMAIN requests
    /\ requests[0] = [investor |-> "A", shares_requested |-> 39, shares_filled |-> 0,
                      usdc_received |-> 0, nav_per_share_at_request |-> 1333333,
                      status |-> "Pending"]

C29_TriggerEpoch ==
    /\ []((fund.exists /\ fund.stage \in {"Trading", "Settlement"}) =>
            /\ now < fund.last_epoch_ts + fund.epoch_interval_secs
                    => process_epoch_err = "EpochNotReady"
            /\ now >= fund.last_epoch_ts + fund.epoch_interval_secs
                    => process_epoch_err = "Ok")
    /\ [][(accounts' # accounts /\ process_epoch) =>
            /\ now >= fund.last_epoch_ts + fund.epoch_interval_secs
            /\ fund' = [fund EXCEPT !.last_epoch_ts = now]
            /\ UNCHANGED <<protocol, vault, manager_fee, shares, requests, now,
                           perf_fee_received, inflow>>]_vars

\* the trigger fired and is refused again in Settlement within the interval
C29_Witness ==
    /\ fund.stage = "Settlement"
    /\ requests = <<>>
    /\ fund.last_epoch_ts = now
    /\ process_epoch_err = "EpochNotReady"

\* ------------------------------------------------------------------
\* C30 in Trading, withdraw_early of sh shares (sh > 0, held by the investor)
\*     is accepted iff vault >= payout + floor((vault - payout) *
\*     liquidity_buffer_bps / 10000), with payout = share_value -
\*     floor(share_value * early_exit_fee_bps / 10000) and share_value =
\*     floor(sh * vault / total_shares), and fails with InsufficientBuffer
\*     otherwise; when accepted it burns sh shares, pays exactly payout and
\*     lowers total_shares by sh
\* ------------------------------------------------------------------
C30_ShareValue(sh) ==
    IF fund.total_shares = 0 THEN 0 ELSE MulDiv(sh, vault, fund.total_shares)

C30_Payout(sh) ==
    C30_ShareValue(sh) - MulDiv(C30_ShareValue(sh), fund.early_exit_fee_bps, BPS_DENOM)

C30_Sufficient(sh) ==
    /\ vault >= C30_Payout(sh)
    /\ vault >= C30_Payout(sh)
                + MulDiv(vault - C30_Payout(sh), fund.liquidity_buffer_bps, BPS_DENOM)

C30_BufferGate ==
    (Constructed /\ fund.stage = "Trading") =>
        \A i \in Investors : \A s \in ShareInputs(i) :
            (s > 0 /\ shares[i] >= s) =>
                /\ withdraw_early_err(i, s) = "Ok" <=> C30_Sufficient(s)
                /\ ~C30_Sufficient(s) => withdraw_early_err(i, s) = "InsufficientBuffer"

C30_EarlyWithdrawEffect ==
    /\ []C30_BufferGate
    /\ [][accounts' # accounts =>
            \A i \in Investors : \A s \in ShareInputs(i) :
                withdraw_early(i, s) =>
                    /\ shares' = [shares EXCEPT ![i] = shares[i] - s]
                    /\ vault' = vault - C30_Payout(s)
                    /\ fund'.total_shares = fund.total_shares - s]_vars

\* the same effect with total_shares lowered as the code lowers it, stopping
\* at zero
C30_EarlyWithdrawEffectSaturating ==
    /\ []C30_BufferGate
    /\ [][accounts' # accounts =>
            \A i \in Investors : \A s \in ShareInputs(i) :
                withdraw_early(i, s) =>
                    /\ shares' = [shares EXCEPT ![i] = shares[i] - s]
                    /\ vault' = vault - C30_Payout(s)
                    /\ fund' = [fund EXCEPT !.total_shares =
                            IF fund.total_shares >= s THEN fund.total_shares - s ELSE 0]
                    /\ UNCHANGED <<protocol, manager_fee, requests, now,
                                   perf_fee_received, inflow>>]_vars

\* ------------------------------------------------------------------
\* C31 start_trading in Open fails with TradingNotStarted while
\*     now < trading_start_ts and end_trading in Trading fails with
\*     TradingNotEnded while now < trading_end_ts; so a fund is in Trading or
\*     later only if now >= trading_start_ts, and in Settlement or Closed
\*     only if now >= trading_end_ts
\* ------------------------------------------------------------------
C31_TimeGates ==
    Constructed =>
        /\ (fund.stage = "Open" /\ now < fund.trading_start_ts)
                => start_trading_err = "TradingNotStarted"
        /\ (fund.stage = "Trading" /\ now < fund.trading_end_ts)
                => end_trading_err = "TradingNotEnded"
        /\ fund.stage \in {"Trading", "Settlement", "Closed"} => now >= fund.trading_start_ts
        /\ fund.stage \in {"Settlement", "Closed"} => now >= fund.trading_end_ts

\* trading has started at its start time and end_trading is still refused
C31_Witness ==
    /\ fund.stage = "Trading"
    /\ now = fund.trading_start_ts
    /\ now < fund.trading_end_ts
    /\ end_trading_err = "TradingNotEnded"

\* ------------------------------------------------------------------
\* C32 initial_aum_usdc is 0 while the fund is Open, is set by the successful
\*     start_trading to the vault balance at that moment, and is changed by
\*     no other operation
\* ------------------------------------------------------------------
C32_InitialAumSetOnce ==
    /\ [](fund.stage = "Open" => fund.initial_aum_usdc = 0)
    /\ [][/\ (fund.exists /\ fund.stage = "Open" /\ fund'.stage = "Trading")
                => fund'.initial_aum_usdc = vault
          /\ (fund.exists /\ fund'.initial_aum_usdc # fund.initial_aum_usdc)
                => /\ fund.stage = "Open" /\ fund'.stage = "Trading"
                   /\ start_trading_err = "Ok"
                   /\ fund'.initial_aum_usdc = vault]_vars

\* a closed fund that started with 39, earned 13 and paid out since
C32_Witness ==
    /\ fund.stage = "Closed"
    /\ fund.initial_aum_usdc = 39
    /\ inflow = 13
    /\ vault < 39

\* ------------------------------------------------------------------
\* C33 finalize_close sets perf_fee_due_usdc to
\*     floor(max(0, vault - initial_aum_usdc) * perf_fee_bps / 10000), sets
\*     perf_fee_paid to false and moves the fund to Closed; the fee due is 0
\*     when the final balance is not above initial_aum_usdc, and no later
\*     operation changes it
\* ------------------------------------------------------------------
C33_FinalizeClose ==
    /\ [](fund.stage # "Closed" => fund.perf_fee_due_usdc = 0)
    /\ [][/\ (fund.exists /\ fund.stage = "Settlement" /\ fund'.stage = "Closed") =>
                LET profit == IF vault > fund.initial_aum_usdc
                              THEN vault - fund.initial_aum_usdc ELSE 0
                IN  /\ finalize_close_err = "Ok"
                    /\ fund'.perf_fee_due_usdc = MulDiv(profit, fund.perf_fee_bps, BPS_DENOM)
                    /\ (vault <= fund.initial_aum_usdc => fund'.perf_fee_due_usdc = 0)
                    /\ fund'.perf_fee_paid = FALSE
                    /\ UNCHANGED <<protocol, vault, manager_fee, shares, requests, now,
                                   perf_fee_received, inflow>>
          /\ (fund.exists /\ fund'.perf_fee_due_usdc # fund.perf_fee_due_usdc) =>
                (fund.stage = "Settlement" /\ fund'.stage = "Closed")]_vars

\* a fund closed on a profit of 13 whose fee of floor(13 * 0.3) = 3 has been
\* paid by a redeem and is still recorded as due
C33_Witness ==
    /\ fund.stage = "Closed"
    /\ fund.initial_aum_usdc = 39
    /\ fund.perf_fee_due_usdc = 3
    /\ fund.perf_fee_paid
    /\ perf_fee_received = 3

\* ------------------------------------------------------------------
\* C34 the first redeem of a Closed fund with a performance fee due moves the
\*     fee to the manager before the payout is computed: the investor
\*     receives floor(sh * (vault - perf_fee_due_usdc) / total_shares) and
\*     the fee is marked paid, so no payout is ever computed on a balance
\*     that still holds the fee, whichever investor redeems first
\* ------------------------------------------------------------------
C34_FeeBeforePayout ==
    [][(fund.stage = "Closed" /\ fund.perf_fee_due_usdc > 0 /\ ~fund.perf_fee_paid
            /\ (shares' # shares \/ vault' < vault)) =>
        \E i \in Investors : \E s \in 1 .. shares[i] :
            /\ shares' = [shares EXCEPT ![i] = shares[i] - s]
            /\ manager_fee' = manager_fee + fund.perf_fee_due_usdc
            /\ fund'.perf_fee_paid
            /\ fund.total_shares > 0
            /\ vault' = vault - fund.perf_fee_due_usdc
                    - ((s * (vault - fund.perf_fee_due_usdc)) \div fund.total_shares)]_vars

\* B redeemed first: the fee of 3 left a balance of 88 for 78 shares, B's 15
\* shares were paid floor(15 * 88 / 78) = 16 and A's shares are untouched
C34_Witness ==
    /\ fund.stage = "Closed"
    /\ fund.perf_fee_due_usdc = 3
    /\ fund.perf_fee_paid
    /\ perf_fee_received = 3
    /\ fund.total_shares = 78 - 15
    /\ shares = [i \in Investors |-> IF i = "B" THEN 39 - 15 ELSE 39]
    /\ vault = 78 + 13 - 3 - 16

\* ------------------------------------------------------------------
\* C35 construction runs in order and each phase at most once:
\*     initialize_share_mint is accepted only from the manager on an Open
\*     fund whose share mint is not set, initialize_vault_accounts only from
\*     the manager after the share mint is set and while the vault account
\*     is not, a phase once done stays done, and no deposit is accepted
\*     before both phases are done
\* ------------------------------------------------------------------
C35_ConstructionOrder ==
    /\ [](/\ \A c \in Signers :
                /\ initialize_share_mint_err(c) = "Ok" <=>
                        (fund.exists /\ c = Manager /\ fund.stage = "Open" /\ ~fund.share_mint)
                /\ initialize_vault_accounts_err(c) = "Ok" <=>
                        (fund.exists /\ c = Manager /\ fund.stage = "Open"
                            /\ fund.share_mint /\ ~fund.vault_usdc_ata)
          /\ fund.vault_usdc_ata => fund.share_mint
          /\ \A a \in AmountProbes :
                deposit_err(a) = "Ok" => (fund.share_mint /\ fund.vault_usdc_ata)
          /\ (fund.total_deposited > 0 \/ vault > 0) => (fund.share_mint /\ fund.vault_usdc_ata))
    /\ [][/\ fund.share_mint => fund'.share_mint
          /\ fund.vault_usdc_ata => fund'.vault_usdc_ata]_vars

\* a fully constructed fund that took a deposit and refuses both phases
C35_Witness ==
    /\ fund.stage = "Open"
    /\ fund.share_mint /\ fund.vault_usdc_ata
    /\ fund.total_deposited = 40
    /\ initialize_share_mint_err(Manager) = "InvalidStage"
    /\ initialize_vault_accounts_err(Manager) = "InvalidStage"

\* ------------------------------------------------------------------
\* C36 create_fund with otherwise valid arguments fails with
\*     TradingStartInPast unless trading_start_ts > now and with
\*     InvalidTradingPeriod unless trading_end_ts > trading_start_ts; every
\*     existing fund has trading_start_ts < trading_end_ts, and the window
\*     and the fee rates never change after creation
\* ------------------------------------------------------------------
C36_TradingWindow ==
    /\ []((protocol.exists /\ ~fund.exists) =>
            \A start \in TradingStartInputs : \A end \in TradingEndInputs(start) :
                LET err == create_fund_err(4, 3, MAX_DEPOSIT_FEE_BPS, MAX_PERF_FEE_BPS, start, end)
                IN  /\ err = "Ok" <=> (start > now /\ end > start)
                    /\ start <= now => err = "TradingStartInPast"
                    /\ (start > now /\ end <= start) => err = "InvalidTradingPeriod")
    /\ [](fund.exists => fund.trading_start_ts < fund.trading_end_ts)
    /\ [][fund.exists =>
            /\ fund'.exists
            /\ fund'.trading_start_ts = fund.trading_start_ts
            /\ fund'.trading_end_ts = fund.trading_end_ts
            /\ fund'.deposit_fee_bps = fund.deposit_fee_bps
            /\ fund'.perf_fee_bps = fund.perf_fee_bps
            /\ fund'.early_exit_fee_bps = fund.early_exit_fee_bps]_vars

\* a fund at the end of its life with the window and rates it was created with
C36_Witness ==
    /\ fund.stage = "Closed"
    /\ fund.trading_end_ts = fund.trading_start_ts + TickLen
    /\ now >= fund.trading_end_ts
    /\ fund.deposit_fee_bps = MAX_DEPOSIT_FEE_BPS
    /\ fund.perf_fee_bps = MAX_PERF_FEE_BPS
    /\ fund.early_exit_fee_bps = DEFAULT_EARLY_EXIT_FEE_BPS

\* ------------------------------------------------------------------
\* C37 while the fund is Open and nothing has entered the vault except
\*     through deposit, the vault balance equals total_shares: each deposit
\*     mints exactly its net amount in shares, each withdraw_open pays
\*     exactly as many units as shares burned, and no deposit meets a zero
\*     vault balance with shares in issue
\* ------------------------------------------------------------------
C37_OpenOneToOne ==
    /\ []((fund.stage = "Open" /\ inflow = 0) =>
            /\ vault = fund.total_shares
            /\ \A a \in AmountProbes : deposit_err(a) # "DivideByZero")
    /\ [][(fund.stage = "Open" /\ fund'.stage = "Open" /\ inflow' = 0) =>
            /\ vault' - vault = fund'.total_shares - fund.total_shares
            /\ \A i \in Investors :
                    shares'[i] - shares[i] = IF shares'[i] # shares[i]
                                             THEN vault' - vault ELSE 0]_vars

\* after two deposits of 40 and B's withdrawal of its 39 shares for 39
C37_Witness ==
    /\ fund.stage = "Open"
    /\ inflow = 0
    /\ fund.total_deposited = 80
    /\ shares = [i \in Investors |-> IF i = "A" THEN 39 ELSE 0]
    /\ vault = 39
    /\ fund.total_shares = 39

\* ------------------------------------------------------------------
\* C38 in every state pending_withdrawal_shares equals the sum of
\*     shares_requested - shares_filled over the fund's Pending and
\*     PartiallyFilled requests
\* ------------------------------------------------------------------
C38_PendingIsSumOfLive ==
    fund.pending_withdrawal_shares
        = SumRemaining("A", DOMAIN requests) + SumRemaining("B", DOMAIN requests)

\* one request was cancelled and the other is partially filled
C38_Witness ==
    /\ CancelledIndexes # {}
    /\ \E k \in DOMAIN requests :
            /\ requests[k].status = "PartiallyFilled"
            /\ requests[k].shares_filled > 0
            /\ fund.pending_withdrawal_shares
                    = requests[k].shares_requested - requests[k].shares_filled
            /\ fund.pending_withdrawal_shares > 0

\* ------------------------------------------------------------------
\* C39 in Trading a process_single_withdrawal that pays is made only when
\*     now >= last_epoch_ts + epoch_interval_secs and stamps last_epoch_ts
\*     = now, the epoch trigger stamps it too, and last_epoch_ts never
\*     decreases and never lies ahead of the clock: two payouts in Trading
\*     are at least one interval apart, and a trigger postpones the next
\*     payout by a further interval
\* ------------------------------------------------------------------
C39_Paid(k) ==
    /\ k \in DOMAIN requests /\ k \in DOMAIN requests'
    /\ requests'[k].usdc_received > requests[k].usdc_received

C39_OnePayoutPerEpoch ==
    /\ [](fund.exists => fund.last_epoch_ts <= now)
    /\ [][fund.exists =>
            /\ fund'.last_epoch_ts >= fund.last_epoch_ts
            /\ fund'.last_epoch_ts # fund.last_epoch_ts => fund'.last_epoch_ts = now
            /\ (fund.stage = "Trading" /\ \E k \in RequestIndexes : C39_Paid(k)) =>
                    /\ now >= fund.last_epoch_ts + fund.epoch_interval_secs
                    /\ fund'.last_epoch_ts = now
                    /\ \A j \in DOMAIN requests' :
                            (requests'[j].status \in {"Pending", "PartiallyFilled"}
                                /\ requests'[j].shares_requested > requests'[j].shares_filled)
                            => process_single_withdrawal_err(j)' = "EpochNotReady"]_vars

\* A's request was paid in this epoch and B's request has to wait although
\* the vault holds what B is owed
C39_Witness ==
    /\ fund.stage = "Trading"
    /\ fund.last_epoch_ts = now
    /\ \E k, j \in DOMAIN requests :
            /\ requests[k].status = "Completed"
            /\ requests[k].usdc_received = 39
            /\ requests[j].status = "Pending"
            /\ vault >= 39
            /\ process_single_withdrawal_err(j) = "EpochNotReady"

\* ------------------------------------------------------------------
\* C40 for any liquidity_buffer_bps up to 10000, a withdraw_early whose
\*     payout does not exceed the vault balance passes the buffer check:
\*     InsufficientBuffer is returned exactly when the payout is larger than
\*     the vault balance, and never for shares <= total_shares, so an early
\*     exit may leave the vault with any balance
\* ------------------------------------------------------------------
BufferBpsProbes == {0, DEFAULT_BUFFER_BPS, BPS_DENOM}

====
